---- MODULE Spec2Model ----
(***************************************************************************)
(* Model of pi_1wire/sensors.py: one sensor (BaseSensor and its two        *)
(* variants MockSensor and SysFSSensor), its polling thread (run), the     *)
(* bounded history deque, the readers last() and stats(), and stop().      *)
(*                                                                         *)
(* Time is counted in integer ticks; every call of time.time() reads the   *)
(* variable now, and the clock may tick between any two steps of a thread. *)
(* An optional Python value (None or x) is the sequence <<>> or <<x>>.     *)
(* Sensor values are held in thousandths (the unit of the w1_slave         *)
(* payload), so the float payload/1000 is the integer payload here.        *)
(***************************************************************************)
EXTENDS Integers, Sequences, FiniteSets, TLC

\* ---- bounds of the model ----
Interval == 2        \* BaseSensor.interval, in ticks
MaxHistory == 2      \* BaseSensor.max_history
MaxTime == 6         \* the clock stops ticking here
MaxPreseed == 2      \* MockSensor preseed argument ranges over 0..MaxPreseed
MaxRetries == 2      \* the retries counter (used for logging only) saturates here
MaxN == 3            \* last(n) is called with n in 0..MaxN

\* ---- program constants ----
SENSOR_UNREADABLE == 1
SENSOR_FORMAT_INVALID == 2
SENSOR_CRC_INVALID == 4

None == <<>>
Some(x) == <<x>>

Min(a, b) == IF a < b THEN a ELSE b
Max(a, b) == IF a > b THEN a ELSE b
Abs(a) == IF a < 0 THEN 0 - a ELSE a

VARIABLES
    now,          \* the clock, time.time()
    kind,         \* "Mock" or "SysFS": the class of the sensor
    readings,     \* self._readings, the deque, oldest first; entries <<ts, value>>
    shutdown,     \* self.shutdown
    suspended,    \* self.suspended
    pc,           \* position of the polling thread in run()
    ts_,          \* run(): ts_
    ts,           \* run(): ts
    reading,      \* run(): reading
    retries,      \* run(): retries
    err,          \* run(): the SensorError caught last in this cycle (args), or None
    tleft,        \* retryable(): the value of time.time() on the left of <
    bnd,          \* sleep_time(): the value of self.ts(offset=self.interval)
    wakeAt,       \* time.sleep(): the time the sleep ends
    genValue,     \* MockSensor.bounded_generator: value
    genStarted,   \* MockSensor.bounded_generator: the first yield has happened
    genCfg,       \* MockSensor.__init__ arguments initial, low, high, deltas, preseed
    lockOwner,    \* self.lock (RLock): "none", "poller" or "reader"
    rpc,          \* position of the reporting thread in last() / stats()
    rn,           \* last(n): n
    rbranch,      \* last(n): outcome of n > len(self._readings)
    rvalid,       \* stats(): valid_readings
    rtotal,       \* stats(): total_reading_count
    rresult,      \* the value the last finished call returned
    rsnap,        \* history: self._readings when the running call first took the lock
    appended,     \* history: every Reading appended to the deque, in order
    loopAppended, \* history: the Readings appended by run(), in order
    stopCalled,   \* history: stop() has been invoked
    probe,        \* history: the file contents the last _read of this cycle saw, or None
    readEarly,    \* history: the running _read was invoked before the midpoint
    afterStop     \* history: appends since stop() was invoked in the main loop
                  \*   (-1: no such invocation yet)

vars == <<now, kind, readings, shutdown, suspended, pc, ts_, ts, reading,
          retries, err, tleft, bnd, wakeAt, genValue, genStarted, genCfg,
          lockOwner, rpc, rn, rbranch, rvalid, rtotal, rresult, rsnap,
          appended, loopAppended, stopCalled, probe, readEarly, afterStop>>

pollerVars == <<shutdown, suspended, pc, ts_, ts, reading, retries, err,
                tleft, bnd, wakeAt, probe, readEarly>>
readerVars == <<rpc, rn, rbranch, rvalid, rtotal, rresult, rsnap>>
genVars == <<genValue, genStarted>>

\* ---- BaseSensor.ts ----
\* self.interval * int((time.time() + offset) / self.interval), time >= 0
Ts(t, offset) == Interval * ((t + offset) \div Interval)

\* a deque built without maxlen: nothing is ever evicted
DequeAppendNoMaxlen(q, x) == Append(q, x)

\* a full deque that gives up its newest entry instead of its oldest
DequeAppendEvictNewest(q, x) ==
    IF Len(q) >= MaxHistory
    THEN Append(SubSeq(q, 1, MaxHistory - 1), x)
    ELSE Append(q, x)

\* ---- collections.deque(maxlen=max_history).append ----
DequeAppend(q, x) ==
    IF Len(q) >= MaxHistory
    THEN Append(SubSeq(q, Len(q) - MaxHistory + 2, Len(q)), x)
    ELSE Append(q, x)

RECURSIVE DequeExtend(_, _)
DequeExtend(q, xs) ==
    IF xs = <<>> THEN q ELSE DequeExtend(DequeAppend(q, Head(xs)), Tail(xs))


\* ---- MockSensor.bounded_generator ----
\* random.uniform(a, b) returns a + (b-a)*random(): a value between a and b,
\* whichever of the two is the smaller.
Uniform(a, b) == Min(a, b)..Max(a, b)

\* the values the next call of generator.next() may yield
GenNext(cfg, value, started) ==
    IF ~started
    THEN {cfg.initial}
    ELSE LET down_delta == 0 - Abs(cfg.down_delta)
             up_delta == Abs(cfg.up_delta)
         IN  {value + delta :
                 delta \in Uniform(Max(cfg.low - value, down_delta),
                                   Min(cfg.high - value, up_delta))}

\* the sequences of k values a generator may yield from its construction on
RECURSIVE GenRuns(_, _, _, _)
GenRuns(cfg, value, started, k) ==
    IF k = 0
    THEN {<<>>}
    ELSE UNION {{<<w>> \o r : r \in GenRuns(cfg, w, TRUE, k - 1)} :
                    w \in GenNext(cfg, value, started)}

\* ---- MockSensor.__init__ / _preseed ----
\* self.preseed = min(preseed, self.max_history)
PreseedArg(cfg) == Min(cfg.preseed, MaxHistory)

\* a range of self.preseed steps instead of self.preseed+1
PreseedCountNoPlusOne(cfg) == PreseedArg(cfg)

\* xrange(ts-(self.preseed+1)*self.interval, ts, self.interval): its length
PreseedCount(cfg) ==
    Cardinality({i \in 0..PreseedArg(cfg) :
                    (0 - (PreseedArg(cfg) + 1) * Interval) + i * Interval < 0})

\* the Readings _preseed appends for the generator values run, all stamped ts
PreseedReadings(t, run) == [i \in 1..Len(run) |-> <<t, Some(run[i])>>]

MockConfigs ==
    [initial : {0, 2}, low : {0}, high : {1}, down_delta : {1},
     up_delta : {1}, preseed : 0..MaxPreseed]

NoConfig ==
    [initial |-> 0, low |-> 0, high |-> 0, down_delta |-> 0,
     up_delta |-> 0, preseed |-> 0]

\* ---- SensorError ----
\* the args of a SensorError; the message text is not modelled (0)
Err2(code) == <<code, 0>>
Err3(code, n) == <<code, 0, n>>

\* SensorError.errno
Errno(args) == IF Len(args) = 2 THEN Some(args[1]) ELSE None

\* ---- SysFSSensor._read ----
\* A line of the probe file: tail is lines[i][-3:], eq says whether the line
\* contains "=", num is float() of the text after the last "=" (None when
\* that text is not a number).
LCrcYes == [tail |-> "YES", eq |-> TRUE, num |-> None]
LCrcNo == [tail |-> " NO", eq |-> TRUE, num |-> None]
LTemp(v) == [tail |-> "t=n", eq |-> TRUE, num |-> Some(v)]
LNoEq == [tail |-> "txt", eq |-> FALSE, num |-> None]
LJunk == [tail |-> "txt", eq |-> TRUE, num |-> None]

Payloads == {0 - 1, 0, 1}

\* the contents of the w1_slave file: unreadable, or a sequence of lines
Probes ==
    {[readable |-> FALSE, lines |-> <<>>]} \cup
    {[readable |-> TRUE, lines |-> l] : l \in
        {<<LCrcYes>>, <<LCrcYes, LTemp(1), LTemp(1)>>,
         <<LCrcNo, LTemp(0 - 62)>>, <<LCrcNo, LNoEq>>, <<LCrcNo, LJunk>>,
         <<LCrcYes, LNoEq>>, <<LCrcYes, LJunk>>}
        \cup {<<LCrcYes, LTemp(v)>> : v \in Payloads}}

\* a _read that parses the second line before it looks at the CRC marker
SysFSReadPayloadFirst(file) ==
    IF ~file.readable
    THEN [ok |-> FALSE, args |-> Err2(SENSOR_UNREADABLE), value |-> 0]
    ELSE IF Len(file.lines) # 2
    THEN [ok |-> FALSE,
          args |-> Err3(SENSOR_FORMAT_INVALID, Len(file.lines)), value |-> 0]
    ELSE IF ~file.lines[2].eq
    THEN [ok |-> FALSE, args |-> Err2(SENSOR_FORMAT_INVALID), value |-> 0]
    ELSE IF file.lines[2].num = None
    THEN [ok |-> FALSE, args |-> Err2(SENSOR_FORMAT_INVALID), value |-> 0]
    ELSE IF file.lines[1].tail # "YES"
    THEN [ok |-> FALSE, args |-> Err2(SENSOR_CRC_INVALID), value |-> 0]
    ELSE [ok |-> TRUE, args |-> <<>>, value |-> file.lines[2].num[1]]

SysFSRead(file) ==
    IF ~file.readable
    THEN [ok |-> FALSE, args |-> Err2(SENSOR_UNREADABLE), value |-> 0]
    ELSE IF Len(file.lines) # 2
    THEN [ok |-> FALSE,
          args |-> Err3(SENSOR_FORMAT_INVALID, Len(file.lines)), value |-> 0]
    ELSE IF file.lines[1].tail # "YES"
    THEN [ok |-> FALSE, args |-> Err2(SENSOR_CRC_INVALID), value |-> 0]
    ELSE IF ~file.lines[2].eq
    THEN [ok |-> FALSE, args |-> Err2(SENSOR_FORMAT_INVALID), value |-> 0]
    ELSE IF file.lines[2].num = None
    THEN [ok |-> FALSE, args |-> Err2(SENSOR_FORMAT_INVALID), value |-> 0]
    ELSE [ok |-> TRUE, args |-> <<>>, value |-> file.lines[2].num[1]]

\* ---- construction: SensorManager._init_sensors has built and started the sensor ----
InitCommon ==
    /\ now = 0
    /\ shutdown = FALSE
    /\ suspended = FALSE
    /\ pc = "start"
    /\ ts_ = 0 /\ ts = 0 /\ reading = None /\ retries = 0 /\ err = None
    /\ tleft = 0 /\ bnd = 0 /\ wakeAt = 0
    /\ lockOwner = "none"
    /\ rpc = "idle" /\ rn = 0 /\ rbranch = FALSE /\ rvalid = <<>>
    /\ rtotal = 0 /\ rresult = None /\ rsnap = <<>>
    /\ loopAppended = <<>>
    /\ stopCalled = FALSE
    /\ probe = None
    /\ readEarly = FALSE
    /\ afterStop = 0 - 1

InitSysFS ==
    /\ kind = "SysFS"
    /\ readings = <<>>
    /\ appended = <<>>
    /\ genCfg = NoConfig /\ genValue = 0 /\ genStarted = FALSE

InitMock ==
    /\ kind = "Mock"
    /\ \E cfg \in MockConfigs :
         \E run \in GenRuns(cfg, cfg.initial, FALSE, PreseedCount(cfg)) :
            /\ genCfg = cfg
            /\ appended = PreseedReadings(Ts(now, 0), run)
            /\ readings = DequeExtend(<<>>, PreseedReadings(Ts(now, 0), run))
            /\ genValue = IF run = <<>> THEN cfg.initial ELSE run[Len(run)]
            /\ genStarted = (run # <<>>)

Init == InitCommon /\ (InitSysFS \/ InitMock)

\* ---- the clock ----
Tick ==
    /\ now < MaxTime
    /\ now' = now + 1
    /\ UNCHANGED <<kind, readings, pollerVars, genVars, genCfg, lockOwner,
                   readerVars, appended, loopAppended, stopCalled, afterStop>>

\* ---- BaseSensor.stop ----
\* run() has finished its flag reset and its first, aligning sleep (a sleep
\* position with nothing appended yet is the aligning sleep)
InMainLoop ==
    /\ pc # "start"
    /\ pc \in {"st_ts", "st_call", "asleep"} => loopAppended # <<>>

Stop ==
    /\ shutdown' = TRUE
    /\ stopCalled' = TRUE
    /\ afterStop' = IF InMainLoop /\ afterStop < 0 THEN 0 ELSE afterStop
    /\ UNCHANGED <<now, kind, readings, suspended, pc, ts_, ts, reading,
                   retries, err, tleft, bnd, wakeAt, genVars, genCfg,
                   lockOwner, readerVars, appended, loopAppended, probe,
                   readEarly>>

\* a lock that never makes a thread wait
CanAcquireNoLock(thread) == TRUE

\* ---- self.lock ----
\* a thread may take the RLock when it is free or already its own
CanAcquire(thread) == lockOwner \in {"none", thread}

\* ---- BaseSensor.run ----
pollerFrame == <<now, kind, readings, genVars, genCfg, lockOwner, readerVars,
                 appended, loopAppended, stopCalled, afterStop>>

\* self.shutdown = False; self.suspended = False
RunStart ==
    /\ pc = "start"
    /\ shutdown' = FALSE
    /\ suspended' = FALSE
    /\ pc' = "st_ts"
    /\ UNCHANGED <<ts_, ts, reading, retries, err, tleft, bnd, wakeAt>>
    /\ UNCHANGED pollerFrame
    /\ UNCHANGED <<probe, readEarly>>

\* sleep_time(): the left operand self.ts(offset=self.interval)
SleepTimeTs ==
    /\ pc = "st_ts"
    /\ bnd' = Ts(now, Interval)
    /\ pc' = "st_call"
    /\ UNCHANGED <<shutdown, suspended, ts_, ts, reading, retries, err, tleft,
                   wakeAt>>
    /\ UNCHANGED pollerFrame
    /\ UNCHANGED <<probe, readEarly>>

\* sleep_time(): ... - time.time(), then time.sleep(sleep_time)
SleepCall ==
    /\ pc = "st_call"
    /\ bnd - now >= 0
    /\ wakeAt' = now + (bnd - now)
    /\ pc' = "asleep"
    /\ UNCHANGED <<shutdown, suspended, ts_, ts, reading, retries, err, tleft,
                   bnd>>
    /\ UNCHANGED pollerFrame
    /\ UNCHANGED <<probe, readEarly>>

\* time.sleep of a negative number raises IOError (EINVAL), which nothing in
\* run() catches: the thread ends
SleepNegative ==
    /\ pc = "st_call"
    /\ bnd - now < 0
    /\ pc' = "Crashed"
    /\ UNCHANGED <<shutdown, suspended, ts_, ts, reading, retries, err, tleft,
                   bnd, wakeAt>>
    /\ UNCHANGED pollerFrame
    /\ UNCHANGED <<probe, readEarly>>

\* time.sleep returns, not before the requested time
Wake ==
    /\ pc = "asleep"
    /\ now >= wakeAt
    /\ pc' = "loop"
    /\ UNCHANGED <<shutdown, suspended, ts_, ts, reading, retries, err, tleft,
                   bnd, wakeAt>>
    /\ UNCHANGED pollerFrame
    /\ UNCHANGED <<probe, readEarly>>

\* a loop that never looks at the flag
LoopConditionAlways(flag) == TRUE

\* while not self.shutdown
LoopCondition(flag) == ~flag

\* while not self.shutdown: the flag is set, the loop and the thread end
LoopExit ==
    /\ pc = "loop"
    /\ ~LoopCondition(shutdown)
    /\ pc' = "Stopped"
    /\ UNCHANGED <<shutdown, suspended, ts_, ts, reading, retries, err, tleft,
                   bnd, wakeAt>>
    /\ UNCHANGED pollerFrame
    /\ UNCHANGED <<probe, readEarly>>

\* while not self.shutdown: if self.suspended (never set by any code: the
\* branch is dead); t0 = time.time()
LoopEnter ==
    /\ pc = "loop"
    /\ LoopCondition(shutdown)
    /\ ~suspended
    /\ pc' = "cycle_ts"
    /\ UNCHANGED <<shutdown, suspended, ts_, ts, reading, retries, err, tleft,
                   bnd, wakeAt>>
    /\ UNCHANGED pollerFrame
    /\ UNCHANGED <<probe, readEarly>>

\* ts_ = self.ts(); reading = None; retries = 0
CycleTs ==
    /\ pc = "cycle_ts"
    /\ ts_' = Ts(now, 0)
    /\ reading' = None
    /\ retries' = 0
    /\ err' = None          \* no SensorError caught yet in this cycle
    /\ pc' = "read"
    /\ UNCHANGED <<shutdown, suspended, ts, tleft, bnd, wakeAt>>
    /\ UNCHANGED pollerFrame
    /\ probe' = None /\ readEarly' = FALSE

\* while reading is None: try: self._read() is called
ReadInvoke ==
    /\ pc = "read"
    /\ reading = None
    /\ pc' = "in_read"
    /\ UNCHANGED <<shutdown, suspended, ts_, ts, reading, retries, err, tleft,
                   bnd, wakeAt>>
    /\ UNCHANGED pollerFrame
    /\ readEarly' = (2 * now < 2 * ts_ + Interval)
    /\ UNCHANGED probe

\* MockSensor._read returns self.generator.next(); break
MockReadReturn ==
    /\ pc = "in_read"
    /\ kind = "Mock"
    /\ \E v \in GenNext(genCfg, genValue, genStarted) :
         /\ reading' = Some(v)
         /\ genValue' = v
         /\ genStarted' = TRUE
    /\ pc' = "stamp"
    /\ UNCHANGED <<shutdown, suspended, ts_, ts, retries, err, tleft, bnd,
                   wakeAt>>
    /\ UNCHANGED <<now, kind, readings, genCfg, lockOwner, readerVars,
                   appended, loopAppended, stopCalled>>
    /\ UNCHANGED <<probe, readEarly, afterStop>>

\* SysFSSensor._read returns a value; break
SysFSReadReturn ==
    /\ pc = "in_read"
    /\ kind = "SysFS"
    /\ \E p \in Probes :
         /\ SysFSRead(p).ok
         /\ reading' = Some(SysFSRead(p).value)
         /\ probe' = Some(p)
    /\ UNCHANGED readEarly
    /\ pc' = "stamp"
    /\ UNCHANGED <<shutdown, suspended, ts_, ts, retries, err, tleft, bnd,
                   wakeAt>>
    /\ UNCHANGED pollerFrame

\* every SensorError is retried, whatever its errno
NonRetryablePcRetry == "read"

\* the SensorError is not caught: it leaves run() and the thread ends
NonRetryablePcRaise == "Crashed"

\* except SensorError as e: the position run() continues at when e.errno is
\* not SENSOR_CRC_INVALID (break)
NonRetryablePc == "stamp"

\* except SensorError as e: if e.errno != SENSOR_CRC_INVALID: break
ReadErrorNonRetryable ==
    /\ pc = "in_read"
    /\ kind = "SysFS"
    /\ \E p \in Probes :
         /\ ~SysFSRead(p).ok
         /\ Errno(SysFSRead(p).args) # Some(SENSOR_CRC_INVALID)
         /\ err' = SysFSRead(p).args
         /\ probe' = Some(p)
    /\ UNCHANGED readEarly
    /\ pc' = NonRetryablePc
    /\ UNCHANGED <<shutdown, suspended, ts_, ts, reading, retries, tleft, bnd,
                   wakeAt>>
    /\ UNCHANGED pollerFrame

\* except SensorError as e: errno is SENSOR_CRC_INVALID; retries += 1 in
\* either branch of if retries; then self.retryable(ts_) reads time.time()
ReadErrorCrc ==
    /\ pc = "in_read"
    /\ kind = "SysFS"
    /\ \E p \in Probes :
         /\ ~SysFSRead(p).ok
         /\ Errno(SysFSRead(p).args) = Some(SENSOR_CRC_INVALID)
         /\ err' = SysFSRead(p).args
         /\ probe' = Some(p)
    /\ UNCHANGED readEarly
    /\ retries' = Min(retries + 1, MaxRetries)
    /\ tleft' = now
    /\ pc' = "retryable"
    /\ UNCHANGED <<shutdown, suspended, ts_, ts, reading, bnd, wakeAt>>
    /\ UNCHANGED pollerFrame

\* a deadline computed without the offset: the middle of ts and the last boundary
RetryableNoOffset(tl, t, tr) == 2 * tl < t + Ts(tr, 0)

\* a retry policy without a deadline
RetryableAlways(tl, t, tr) == TRUE

\* retryable(ts): time.time() < float(ts + self.ts(offset=self.interval))/2
Retryable(tl, t, tr) == 2 * tl < t + Ts(tr, Interval)

\* if not self.retryable(ts_) is false: the while loop goes round
RetryYes ==
    /\ pc = "retryable"
    /\ Retryable(tleft, ts_, now)
    /\ pc' = "read"
    /\ UNCHANGED <<shutdown, suspended, ts_, ts, reading, retries, err, tleft,
                   bnd, wakeAt>>
    /\ UNCHANGED pollerFrame
    /\ UNCHANGED <<probe, readEarly>>

\* if not self.retryable(ts_): break
RetryNo ==
    /\ pc = "retryable"
    /\ ~Retryable(tleft, ts_, now)
    /\ pc' = "stamp"
    /\ UNCHANGED <<shutdown, suspended, ts_, ts, reading, retries, err, tleft,
                   bnd, wakeAt>>
    /\ UNCHANGED pollerFrame
    /\ UNCHANGED <<probe, readEarly>>

\* ts = self.ts(); slips = (ts - ts_) / self.interval
Stamp ==
    /\ pc = "stamp"
    /\ ts' = Ts(now, 0)
    /\ pc' = "append"
    /\ UNCHANGED <<shutdown, suspended, ts_, reading, retries, err, tleft,
                   bnd, wakeAt>>
    /\ UNCHANGED pollerFrame
    /\ readEarly' = FALSE
    /\ UNCHANGED probe

\* a loop that never notices a slip
SlipsNever(t, t_) == 0

\* slips = (ts - ts_) / self.interval
Slips(t, t_) == (t - t_) \div Interval

\* with self.lock: self._readings.append([ts, reading]); if not slips: sleep
AppendReading ==
    /\ pc = "append"
    /\ CanAcquire("poller")
    /\ readings' = DequeAppend(readings, <<ts, reading>>)
    /\ appended' = Append(appended, <<ts, reading>>)
    /\ loopAppended' = Append(loopAppended, <<ts, reading>>)
    /\ pc' = IF Slips(ts, ts_) # 0 THEN "loop" ELSE "st_ts"
    /\ UNCHANGED <<shutdown, suspended, ts_, ts, reading, retries, err, tleft,
                   bnd, wakeAt>>
    /\ UNCHANGED <<now, kind, genVars, genCfg, lockOwner, readerVars,
                   stopCalled>>
    /\ afterStop' = IF afterStop >= 0 THEN afterStop + 1 ELSE afterStop
    /\ UNCHANGED <<probe, readEarly>>

Poller ==
    \/ RunStart \/ SleepTimeTs \/ SleepCall \/ SleepNegative \/ Wake
    \/ LoopExit \/ LoopEnter \/ CycleTs \/ ReadInvoke \/ MockReadReturn
    \/ SysFSReadReturn \/ ReadErrorNonRetryable \/ ReadErrorCrc
    \/ RetryYes \/ RetryNo \/ Stamp \/ AppendReading

\* ---- BaseSensor.last ----
\* if n > len(self._readings)
LastBranch(n, q) == n > Len(q)

\* self._readings[i] for a negative index i
DequeIndex(q, i) == q[Len(q) + i + 1]

\* return list(self._readings), or
\* return [self._readings[i] for i in xrange(0-n, 0)]
LastList(branch, n, q) ==
    IF branch
    THEN q
    ELSE [j \in 1..n |-> DequeIndex(q, (0 - n) + (j - 1))]

\* ---- BaseSensor.stats ----
\* the truth value of a reading's value x[1]: None and 0.0 are false
Truthy(v) == v # None /\ v[1] # 0

\* [x[1] for x in self.readings if x[1]]
RECURSIVE ValidReadings(_)
ValidReadings(q) ==
    IF q = <<>>
    THEN <<>>
    ELSE IF Truthy(Head(q)[2])
         THEN <<Head(q)[2][1]>> \o ValidReadings(Tail(q))
         ELSE ValidReadings(Tail(q))

RECURSIVE SeqSum(_)
SeqSum(xs) == IF xs = <<>> THEN 0 ELSE Head(xs) + SeqSum(Tail(xs))

SeqMin(xs) == CHOOSE m \in {xs[i] : i \in 1..Len(xs)} :
                 \A i \in 1..Len(xs) : m <= xs[i]
SeqMax(xs) == CHOOSE m \in {xs[i] : i \in 1..Len(xs)} :
                 \A i \in 1..Len(xs) : m >= xs[i]

\* a / float(b), kept as the fraction
Ratio(a, b) == [num |-> a, den |-> b]

\* stats() reporting a numeric valid_ratio of 0 when no value is valid
StatsDictRatioZero(valid_readings, total_reading_count, last) ==
    LET valid_reading_count == Len(valid_readings)
    IN  IF valid_readings # <<>> /\ total_reading_count # 0
        THEN [raised |-> "", last |-> last,
              min |-> Some(SeqMin(valid_readings)),
              max |-> Some(SeqMax(valid_readings)),
              mean |-> Some(Ratio(SeqSum(valid_readings),
                                  valid_reading_count)),
              valid_ratio |-> Some(Ratio(valid_reading_count,
                                         total_reading_count)),
              total_readings |-> total_reading_count,
              valid_readings |-> valid_reading_count]
        ELSE [raised |-> IF valid_readings # <<>> THEN "ZeroDivisionError"
                         ELSE "",
              last |-> last, min |-> None, max |-> None, mean |-> None,
              valid_ratio |-> Some(Ratio(0, 1)),
              total_readings |-> total_reading_count,
              valid_readings |-> valid_reading_count]

\* the dictionary stats() returns (the name is left out); raised names the
\* exception that leaves stats() instead, "" when it returns
StatsDict(valid_readings, total_reading_count, last) ==
    LET valid_reading_count == Len(valid_readings)
    IN  IF valid_readings # <<>>
        THEN IF total_reading_count = 0
             THEN [raised |-> "ZeroDivisionError", last |-> last,
                   min |-> None, max |-> None, mean |-> None,
                   valid_ratio |-> None,
                   total_readings |-> total_reading_count,
                   valid_readings |-> valid_reading_count]
             ELSE [raised |-> "", last |-> last,
                   min |-> Some(SeqMin(valid_readings)),
                   max |-> Some(SeqMax(valid_readings)),
                   mean |-> Some(Ratio(SeqSum(valid_readings),
                                       valid_reading_count)),
                   valid_ratio |-> Some(Ratio(valid_reading_count,
                                              total_reading_count)),
                   total_readings |-> total_reading_count,
                   valid_readings |-> valid_reading_count]
        ELSE [raised |-> "", last |-> last,
              min |-> None,
              max |-> None,
              mean |-> None,
              valid_ratio |-> None,
              total_readings |-> total_reading_count,
              valid_readings |-> valid_reading_count]

\* ---- the reporting thread (webservice.py root and stats) ----
readerFrame == <<now, kind, readings, pollerVars, genVars, genCfg, appended,
                 loopAppended, stopCalled, afterStop>>

\* last(n): with self.lock: if n > len(self._readings)
LastCall ==
    /\ rpc = "idle"
    /\ CanAcquire("reader")
    /\ \E n \in 0..MaxN : rn' = n /\ rbranch' = LastBranch(n, readings)
    /\ lockOwner' = "reader"
    /\ rsnap' = readings
    /\ rpc' = "last_build"
    /\ UNCHANGED <<rvalid, rtotal, rresult>>
    /\ UNCHANGED readerFrame

\* last(n): the list is built and returned, the lock released
LastBuild ==
    /\ rpc = "last_build"
    /\ rresult' = LastList(rbranch, rn, readings)
    /\ lockOwner' = "none"
    /\ rpc' = "last_done"
    /\ UNCHANGED <<rn, rbranch, rvalid, rtotal, rsnap>>
    /\ UNCHANGED readerFrame

\* stats(): with self.lock: valid_readings = [...]
StatsValid ==
    /\ rpc = "idle"
    /\ CanAcquire("reader")
    /\ lockOwner' = "reader"
    /\ rvalid' = ValidReadings(readings)
    /\ rsnap' = readings
    /\ rpc' = "stats_total"
    /\ UNCHANGED <<rn, rbranch, rtotal, rresult>>
    /\ UNCHANGED readerFrame

\* stats(): total_reading_count = len(self.readings); the with block ends
StatsTotal ==
    /\ rpc = "stats_total"
    /\ rtotal' = Len(readings)
    /\ lockOwner' = "none"
    /\ rpc' = "stats_last"
    /\ UNCHANGED <<rn, rbranch, rvalid, rresult, rsnap>>
    /\ UNCHANGED readerFrame

\* stats(): stats["last"] = self.last(): last takes the lock again, n = 1
StatsLastCall ==
    /\ rpc = "stats_last"
    /\ CanAcquire("reader")
    /\ rn' = 1
    /\ rbranch' = LastBranch(1, readings)
    /\ lockOwner' = "reader"
    /\ rpc' = "stats_last_build"
    /\ UNCHANGED <<rvalid, rtotal, rresult, rsnap>>
    /\ UNCHANGED readerFrame

\* stats(): last returns; the rest of the dictionary is filled in and returned
StatsReturn ==
    /\ rpc = "stats_last_build"
    /\ rresult' = StatsDict(rvalid, rtotal, LastList(rbranch, rn, readings))
    /\ lockOwner' = "none"
    /\ rpc' = "stats_done"
    /\ UNCHANGED <<rn, rbranch, rvalid, rtotal, rsnap>>
    /\ UNCHANGED readerFrame

\* the caller has the result; the thread is ready for the next request
ReaderIdle ==
    /\ rpc \in {"last_done", "stats_done"}
    /\ rpc' = "idle"
    /\ rn' = 0 /\ rbranch' = FALSE /\ rvalid' = <<>> /\ rtotal' = 0
    /\ rresult' = None /\ rsnap' = <<>>
    /\ UNCHANGED lockOwner
    /\ UNCHANGED readerFrame

Reader ==
    \/ LastCall \/ LastBuild \/ StatsValid \/ StatsTotal \/ StatsLastCall
    \/ StatsReturn \/ ReaderIdle

Next == Tick \/ Stop \/ Poller \/ Reader

Spec == Init /\ [][Next]_vars

\* ---- one SysFS sensor polled with nobody calling stop() or reading ----
InitLive == InitCommon /\ InitSysFS

PollerLive ==
    \/ RunStart \/ SleepTimeTs \/ SleepCall \/ SleepNegative \/ Wake
    \/ LoopEnter \/ CycleTs \/ ReadInvoke \/ SysFSReadReturn
    \/ ReadErrorNonRetryable \/ ReadErrorCrc \/ RetryYes \/ RetryNo
    \/ Stamp \/ AppendReading

NextLive == Tick \/ PollerLive

\* the clock advances while it can, and the polling thread keeps running:
\* every read attempt returns and every statement of run() is executed
LiveSpec ==
    InitLive /\ [][NextLive]_vars
    /\ WF_vars(Tick) /\ WF_vars(PollerLive)

TypeOK ==
    /\ now \in 0..MaxTime
    /\ Len(readings) \in 0..MaxHistory
    /\ pc \in {"start", "st_ts", "st_call", "asleep", "loop", "cycle_ts",
               "read", "in_read", "retryable", "stamp", "append", "Stopped",
               "Crashed"}
    /\ rpc \in {"idle", "last_build", "last_done", "stats_total",
                "stats_last", "stats_last_build", "stats_done"}
    /\ lockOwner \in {"none", "reader"}

\* ======================= properties =======================

\* the last k elements of q
Suffix(q, k) == SubSeq(q, Len(q) - k + 1, Len(q))

\* the values of the Readings of q that are present (not None), in order
RECURSIVE PresentValues(_)
PresentValues(q) ==
    IF q = <<>>
    THEN <<>>
    ELSE IF Head(q)[2] # None
         THEN <<Head(q)[2][1]>> \o PresentValues(Tail(q))
         ELSE PresentValues(Tail(q))

\* equality of two fractions
RatEq(x, y) == x.num * y.den = y.num * x.den

\* C1: in every reachable state (after construction, after MockSensor
\* pre-seeding, after any number of polling cycles with or without slips)
\* the history holds at most max_history Readings.
C1_HistoryBounded == Len(readings) <= MaxHistory

\* more Readings were appended than the deque holds, and the deque is full
C1_Witness == Len(appended) > MaxHistory /\ Len(readings) = MaxHistory

\* C2: the Readings appended by the polling loop have strictly increasing
\* timestamps: no two consecutive ones carry the same timestamp.
C2_LoopTimestampsIncrease ==
    \A i \in 1..(Len(loopAppended) - 1) :
        loopAppended[i][1] < loopAppended[i + 1][1]

\* C3: once stop() has been invoked, whatever the moment (also before the
\* thread ran the first statement of run), the poller observes the request at
\* a later loop-condition check and stops: every evaluation of the loop
\* condition made after stop() was invoked ends the poller.
C3_StopObservedAtLoopCheck ==
    [][(stopCalled /\ pc = "loop" /\ pc' # "loop") => pc' = "Stopped"]_vars

\* C4: last(0) returns every Reading in the buffer: last(0) and
\* last(len(history)) return identical snapshots.
C4_LastZeroReturnsAll ==
    (rpc = "last_done" /\ rn = 0) =>
        /\ rresult = rsnap
        /\ rresult = LastList(LastBranch(Len(rsnap), rsnap), Len(rsnap), rsnap)

\* C5: for n >= 1, last(n) returns exactly the final min(n, len(history))
\* Readings of the buffer, oldest first, all taken from the one buffer state
\* the call locked, even when the poller appends concurrently.
C5_LastReturnsSuffix ==
    /\ (rpc = "last_build" => readings = rsnap)
    /\ (rpc = "last_done" /\ rn >= 1) =>
          rresult = Suffix(rsnap, Min(rn, Len(rsnap)))

\* a call last(n) with 1 <= n < len has returned and the poller has appended
\* since the call took the lock
C5_Witness ==
    /\ rpc = "last_done" /\ rn >= 1 /\ rn < Len(rsnap)
    /\ readings # rsnap

\* C6: eviction is FIFO: after k appends to the initially empty buffer the
\* history is the last min(k, max_history) appended Readings in append order.
C6_FifoEviction ==
    readings = Suffix(appended, Min(Len(appended), MaxHistory))

\* one append more than the capacity: the oldest Reading is gone
C6_Witness ==
    /\ Len(appended) = MaxHistory + 1
    /\ Len(readings) = MaxHistory
    /\ readings[1] = appended[2]
    /\ readings[MaxHistory] = appended[MaxHistory + 1]

\* C7: stats() reports valid_readings = the number of Readings whose value
\* is present (any number, zero included), total_readings = the buffer
\* length, min/max/mean over exactly the present values, and
\* valid_ratio = valid_readings / total_readings.
C7_StatsOverPresentValues ==
    rpc = "stats_done" =>
        LET present == PresentValues(rsnap)
        IN  /\ rresult.valid_readings = Len(present)
            /\ rresult.total_readings = Len(rsnap)
            /\ present # <<>> =>
                 /\ rresult.min = Some(SeqMin(present))
                 /\ rresult.max = Some(SeqMax(present))
                 /\ rresult.mean # None
                 /\ RatEq(rresult.mean[1], Ratio(SeqSum(present), Len(present)))
                 /\ rresult.valid_ratio # None
                 /\ RatEq(rresult.valid_ratio[1],
                          Ratio(Len(present), Len(rsnap)))

\* the buffer stats() was computed from is not empty and all its values are absent
AllAbsent(q) == q # <<>> /\ \A i \in 1..Len(q) : q[i][2] = None

\* C8 as stated: stats() on a non-empty all-absent history returns absent
\* min, max and mean and valid_ratio = 0, without raising.
C8_AllAbsentRatioZero ==
    (rpc = "stats_done" /\ AllAbsent(rsnap)) =>
        /\ rresult.raised = ""
        /\ rresult.min = None /\ rresult.max = None /\ rresult.mean = None
        /\ rresult.valid_ratio # None
        /\ rresult.valid_ratio[1].num = 0

\* C8 amended: stats() on a non-empty all-absent history returns absent min,
\* max, mean and an absent valid_ratio (None, not 0), valid_readings = 0 and
\* total_readings = the buffer length, without raising.
C8_AllAbsentStatsAbsent ==
    (rpc = "stats_done" /\ AllAbsent(rsnap)) =>
        /\ rresult.raised = ""
        /\ rresult.min = None /\ rresult.max = None /\ rresult.mean = None
        /\ rresult.valid_ratio = None
        /\ rresult.valid_readings = 0
        /\ rresult.total_readings = Len(rsnap)

\* stats() has returned for a history of failed samples only
C8_Witness == rpc = "stats_done" /\ AllAbsent(rsnap) /\ Len(rsnap) = MaxHistory

\* C9: a stats() call concurrent with the poller's append sees one snapshot:
\* the Reading reported as last is the newest Reading of the buffer state the
\* counts, min, max and mean were computed from.
C9_StatsOneSnapshot ==
    rpc = "stats_done" =>
        /\ rresult.total_readings = Len(rsnap)
        /\ rresult.last = Suffix(rsnap, Min(1, Len(rsnap)))

\* C10: a sensor-read error of any kind never ends the poller: a caught error
\* leads to a retry check or to the end of the read loop; the cycle appends
\* exactly one Reading, with an absent value, at its append step and nowhere
\* else; the poller then sleeps or loops; the thread ends only at the loop
\* condition or in time.sleep.
C10_ReadErrorDegradesCycle ==
    [][/\ (pc = "in_read" /\ pc' # "in_read" /\ reading' = None) =>
             (err' # None /\ pc' \in {"retryable", "stamp"})
       /\ (pc \in {"cycle_ts", "read", "in_read", "retryable", "stamp"}) =>
             (loopAppended' = loopAppended /\ readings' = readings
              /\ pc' \notin {"Stopped", "Crashed", "loop", "st_ts"})
       /\ (pc = "append" /\ pc' # "append" /\ reading = None) =>
             /\ loopAppended' = Append(loopAppended, <<ts, None>>)
             /\ readings' = DequeAppend(readings, <<ts, None>>)
             /\ pc' \in {"loop", "st_ts"}
      ]_vars

\* two cycles in a row ended in an error, the later one in a CRC error after
\* the retries; each appended an absent value and the poller has entered the
\* following cycle
C10_Witness ==
    /\ pc = "cycle_ts"
    /\ err # None
    /\ Errno(err) = Some(SENSOR_CRC_INVALID)
    /\ Len(loopAppended) >= 2
    /\ loopAppended[Len(loopAppended)][2] = None
    /\ loopAppended[Len(loopAppended) - 1][2] = None

\* the kind of a SensorError: the first argument it was raised with
ErrKind(args) == args[1]

\* the midpoint of the interval [t, t + interval) lies after the time tl
BeforeMidpoint(tl, t) == 2 * tl < 2 * t + Interval

\* C11 as stated: a read that fails with CrcInvalid is retried whenever that
\* read was invoked before the midpoint of [ts_, ts_+interval), however long
\* the failing read took.
C11_RetriedIfInvokedEarly ==
    [][(pc = "retryable" /\ readEarly /\ pc' # "retryable") => pc' = "read"]_vars

\* C11 amended: a read that fails with CrcInvalid is retried at least once
\* whenever the failure is caught before the midpoint, that is whenever the
\* time.time() that retryable compares lies before the midpoint of
\* [ts_, ts_+interval); the retry is then the next thing run() does.
C11_RetriedIfCaughtEarly ==
    [][/\ (pc = "retryable" /\ BeforeMidpoint(tleft, ts_)
           /\ pc' # "retryable") => pc' = "read"
       /\ (pc = "read" /\ pc' # "read") => pc' = "in_read"
      ]_vars

\* a retry is running: _read was invoked again after a CRC failure
C11_Witness ==
    /\ pc = "in_read" /\ retries >= 1
    /\ err # None /\ ErrKind(err) = SENSOR_CRC_INVALID
    /\ BeforeMidpoint(tleft, ts_)

\* C12: a read that fails with kind Unreadable or FormatInvalid is never
\* retried: the read loop ends at once, _read is not invoked again in that
\* cycle, and the cycle records a Reading with an absent value.
C12_NonRetryableNeverRetried ==
    [][/\ (pc = "in_read" /\ pc' # "in_read" /\ reading' = None
           /\ ErrKind(err') \in {SENSOR_UNREADABLE, SENSOR_FORMAT_INVALID})
             => pc' = "stamp"
       /\ (pc \in {"stamp", "append"})
             => pc' \notin {"read", "in_read", "retryable"}
       /\ (pc = "append" /\ pc' # "append" /\ reading = None)
             => loopAppended' = Append(loopAppended, <<ts, None>>)
      ]_vars

\* a cycle whose first read was Unreadable has appended an absent value
C12_Witness ==
    /\ pc \in {"st_ts", "loop"}
    /\ err = Err2(SENSOR_UNREADABLE)
    /\ retries = 0
    /\ loopAppended # <<>>
    /\ loopAppended[Len(loopAppended)] = <<ts, None>>

\* the file read last had two lines and no CRC-pass marker on the first
CrcFailed(f) ==
    f.readable /\ Len(f.lines) = 2 /\ f.lines[1].tail # "YES"

\* C13: for every two-line probe content whose first line does not end with
\* the CRC-pass marker the read fails with CrcInvalid, whatever the second
\* line holds, and no value is returned.
C13_CrcCheckedFirst ==
    (probe # None /\ CrcFailed(probe[1])) =>
        /\ reading = None
        /\ err # None
        /\ ErrKind(err) = SENSOR_CRC_INVALID
        /\ Errno(err) = Some(SENSOR_CRC_INVALID)

\* the probe of the spec's scenario (crc NO, then a well-formed t=-62) was read
C13_Witness ==
    /\ probe = Some([readable |-> TRUE, lines |-> <<LCrcNo, LTemp(0 - 62)>>])
    /\ pc = "retryable"

\* C14: the deadline evaluated after a CrcInvalid failure accepts a retry
\* exactly when the current time is before ts_ + interval/2, also when the
\* clock has passed ts_+interval: no retry is accepted at or after the midpoint.
C14_RetryExactlyBeforeMidpoint ==
    [][(pc = "retryable" /\ pc' # "retryable") =>
          (pc' = "read" <=> BeforeMidpoint(tleft, ts_))]_vars

\* C15: every cycle appends exactly one Reading, at its append step, stamped
\* with the ts computed after the read attempt; with ts = ts_ the poller then
\* sleeps and reaches the loop condition no earlier than the next interval
\* boundary; with ts > ts_ it returns to the loop condition without sleeping.
C15_OneReadingPerCycle ==
    [][/\ (pc = "append" /\ pc' # "append") =>
             /\ loopAppended' = Append(loopAppended, <<ts, reading>>)
             /\ pc' = IF ts = ts_ THEN "st_ts" ELSE "loop"
       /\ (pc # "append") => loopAppended' = loopAppended
       /\ (pc' = "loop" /\ pc # "loop") =>
             \/ pc = "append" /\ ts > ts_
             \/ /\ pc = "asleep"
                /\ now >= wakeAt /\ wakeAt = bnd
                /\ Ts(bnd, 0) = bnd
                /\ bnd >= ts + Interval
      ]_vars

\* a cycle slipped: its one Reading carries ts, not ts_, no interval was
\* backfilled, and the poller is back at the loop condition without a sleep
C15_Witness ==
    /\ pc = "loop"
    /\ ts >= ts_ + 2 * Interval
    /\ Len(loopAppended) = 1
    /\ loopAppended[1][1] = ts

\* the poller is in the read loop of a cycle whose midpoint the clock can reach
InReadLoop ==
    /\ pc \in {"read", "in_read", "retryable"}
    /\ ~BeforeMidpoint(MaxTime, ts_)

\* the cycle has appended its Reading: the poller is past the append step
CycleAppended == pc \in {"st_ts", "loop"}

\* C16: the retry loop terminates: in every cycle whose half-interval
\* deadline the clock can reach, even when every attempt fails with
\* CrcInvalid, the poller leaves the read loop and appends the cycle's Reading.
C16_RetryLoopTerminates == InReadLoop ~> CycleAppended

\* a cycle in which the read failed with CrcInvalid at least twice has ended
\* and appended an absent value
C16_Witness ==
    /\ pc \in {"st_ts", "loop"}
    /\ retries >= 2
    /\ err = Err2(SENSOR_CRC_INVALID)
    /\ reading = None
    /\ loopAppended # <<>>
    /\ loopAppended[Len(loopAppended)] = <<ts, None>>

\* C17: when the probe content does not consist of exactly two lines, the
\* errno the poller observes on the error equals the FormatInvalid code.
C17_LineCountErrnoFormatInvalid ==
    (probe # None /\ probe[1].readable /\ Len(probe[1].lines) # 2) =>
        /\ err # None
        /\ Errno(err) = Some(SENSOR_FORMAT_INVALID)

\* C18 as stated: at construction a MockSensor's buffer holds at most
\* min(preseed, max_history) Readings and at least one.
C18_PreseedAtMostMin ==
    (kind = "Mock" /\ pc = "start") =>
        /\ Len(readings) <= Min(genCfg.preseed, MaxHistory)
        /\ Len(readings) >= 1

\* C18 amended: at construction a MockSensor's buffer holds exactly
\* min(preseed + 1, max_history) Readings: at least one, at most max_history.
C18_PreseedCountExact ==
    (kind = "Mock" /\ pc = "start") =>
        /\ Len(readings) = Min(genCfg.preseed + 1, MaxHistory)
        /\ Len(readings) >= 1
        /\ Len(readings) <= MaxHistory

\* a MockSensor built with preseed < max_history holds preseed + 1 Readings
C18_Witness ==
    /\ kind = "Mock" /\ pc = "start"
    /\ genCfg.preseed >= 1
    /\ genCfg.preseed < MaxHistory
    /\ Len(readings) = genCfg.preseed + 1

\* C19: every value the MockSensor's generator produces, the first one
\* (initial) included, lies within [low, high].
C19_WalkWithinBounds ==
    kind = "Mock" =>
        /\ genStarted => (genCfg.low <= genValue /\ genValue <= genCfg.high)
        /\ \A i \in 1..Len(appended) :
              appended[i][2] # None =>
                 /\ genCfg.low <= appended[i][2][1]
                 /\ appended[i][2][1] <= genCfg.high

\* C20: when stop() is invoked after the poller has entered its main loop,
\* at most one more Reading is appended after the invocation, and the next
\* loop-condition check ends the poller.
C20_AtMostOneAppendAfterStop ==
    [][/\ afterStop' <= 1
       /\ (afterStop >= 0 /\ pc = "loop" /\ pc' # "loop") => pc' = "Stopped"
      ]_vars

\* stop() came during a cycle: the cycle appended its Reading, then the loop
\* condition ended the poller
C20_Witness == afterStop = 1 /\ pc = "Stopped"
====
